---- MODULE Spec2Model ----
(***************************************************************************)
(* Model of sample-parser.py: the token rule table, the line tokenizer,    *)
(* the recursive-descent parser and the unparser froot.                    *)
(*                                                                         *)
(* Text is a sequence of one-character strings.  Offsets and token indices *)
(* are 0-based as in the Python source; TLA+ sequences are 1-based, so the *)
(* element at Python index k is s[k+1].                                    *)
(***************************************************************************)
EXTENDS Integers, Sequences, FiniteSets, TLC

\* Longest generated source text.
MaxLen == 5

----------------------------------------------------------------------------
(* Character classes of the regular expressions                            *)

Digits == {"0", "1", "2", "3", "4", "5", "6", "7", "8", "9"}

Lower == {"a", "b", "c", "d", "e", "f", "g", "h", "i", "j", "k", "l", "m",
          "n", "o", "p", "q", "r", "s", "t", "u", "v", "w", "x", "y", "z"}

Upper == {"A", "B", "C", "D", "E", "F", "G", "H", "I", "J", "K", "L", "M",
          "N", "O", "P", "Q", "R", "S", "T", "U", "V", "W", "X", "Y", "Z"}

\* [a-zA-Z_\\] : letters, underscore and the backslash
WordChars == Lower \cup Upper \cup {"_", "\\"}

\* \s restricted to the blanks a line can hold after splitlines()
WhiteSpace == {" ", "\t"}

Min(S) == CHOOSE x \in S : \A y \in S : x <= y

----------------------------------------------------------------------------
(* Token rule table                                                        *)

Lit(t, v, p) == [type |-> t, variant |-> v, re |-> FALSE, pat |-> p]
Re(t, v)     == [type |-> t, variant |-> v, re |-> TRUE,  pat |-> <<>>]

\* The table in declaration order, one entry per (type, variant).
tokens ==
  << Lit("operator", "arrow", <<"-", ">">>),
     Lit("operator", "assign", <<":", "=">>),
     Lit("operator", "add", <<"+">>),
     Lit("operator", "minus", <<"-">>),
     Lit("operator", "divide", <<"/">>),
     Lit("operator", "multiply", <<"*">>),
     Lit("operator", "mod", <<"%">>),
     Lit("operator", "and", <<"&", "&">>),
     Lit("operator", "or", <<"|", "|">>),
     Lit("operator", "xor", <<"^">>),
     Lit("operator", "bitwiseAnd", <<"&">>),
     Lit("operator", "bitwiseOr", <<"|">>),
     Lit("operator", "bitwiseXor", <<"^">>),
     Lit("operator", "equals", <<"=">>),
     Lit("operator", "notEquals", <<"!", "=">>),
     Lit("operator", "equalsIgnoreCase", <<"<", "=", ">">>),
     Lit("operator", "greaterOrEqual", <<">", "=">>),
     Lit("operator", "lessOrEqual", <<"<", "=">>),
     Lit("operator", "least", <<"<", "=">>),
     Lit("operator", "greater", <<">">>),
     Lit("operator", "lesser", <<"<">>),
     Lit("operator", "concat", <<"+">>),
     Lit("open", "larray", <<"@", "(">>),
     Lit("open", "lparen", <<"(">>),
     Lit("open", "lcurly", <<"{">>),
     Lit("open", "lsquare", <<"[">>),
     Lit("close", "rparen", <<")">>),
     Lit("close", "rcurly", <<"}">>),
     Lit("close", "rsquare", <<"]">>),
     Lit("sep", "comma", <<",">>),
     Lit("string", "apostrophe", <<"'">>),
     Lit("string", "quotes", <<"\"">>),
     Lit("string", "escape", <<"\\">>),
     Re("space", "space"),
     Re("number", "number"),
     Re("word", "item"),
     Re("word", "index"),
     Re("word", "word") >>

\* The compiled alternation: the branches of the table in declared order.
token_pattern(table) == [k \in 1..Len(table) |-> table[k]]

pattern == token_pattern(tokens)

----------------------------------------------------------------------------
(* Regular expression matching, anchored at offset i of line               *)

RECURSIVE Run(_, _, _)
\* Number of consecutive characters of class S starting at offset i.
Run(line, i, S) ==
  IF i < Len(line) /\ line[i + 1] \in S THEN 1 + Run(line, i + 1, S) ELSE 0

\* Length of the literal p at offset i, 0 when it is not there.
LitLen(line, i, p) ==
  IF i + Len(p) <= Len(line) /\ SubSeq(line, i + 1, i + Len(p)) = p
  THEN Len(p) ELSE 0

\* (?:\d+|\d*\.\d+) : the first alternative wins whenever a digit is at i,
\* so the second one only ever matches a literal that starts with the point.
NumberLen(line, i) ==
  IF Run(line, i, Digits) > 0 THEN Run(line, i, Digits)
  ELSE IF LitLen(line, i, <<".">>) = 1 /\ Run(line, i + 1, Digits) > 0
       THEN 1 + Run(line, i + 1, Digits)
       ELSE 0

\* #item(?:_\d+)? and #index(?:_\d+)?
ReservedLen(line, i, word) ==
  LET n == LitLen(line, i, word)
  IN  IF n = 0 THEN 0
      ELSE IF LitLen(line, i + n, <<"_">>) = 1 /\ Run(line, i + n + 1, Digits) > 0
           THEN n + 1 + Run(line, i + n + 1, Digits)
           ELSE n

\* Length matched by one branch at offset i; no branch matches the empty text.
BranchLen(b, line, i) ==
  IF ~b.re THEN LitLen(line, i, b.pat)
  ELSE CASE b.variant = "space"  -> Run(line, i, WhiteSpace)
         [] b.variant = "number" -> NumberLen(line, i)
         [] b.variant = "item"   -> ReservedLen(line, i, <<"#", "i", "t", "e", "m">>)
         [] b.variant = "index"  -> ReservedLen(line, i, <<"#", "i", "n", "d", "e", "x">>)
         [] b.variant = "word"   -> Run(line, i, WordChars)

\* The first branch of the alternation that matches at offset i, 0 if none.
FirstBranch(pat, line, i) ==
  LET K == {k \in 1..Len(pat) : BranchLen(pat[k], line, i) > 0}
  IN  IF K = {} THEN 0 ELSE Min(K)

\* pattern.search(line, i) in place of pattern.match: the match may start
\* after offset i.
match_search(pat, line, i) ==
  LET J == {j \in i..(Len(line) - 1) : FirstBranch(pat, line, j) # 0}
      s == IF J = {} THEN i ELSE Min(J)
      g == FirstBranch(pat, line, s)
  IN  [lastgroup |-> g, start |-> s,
       end |-> IF g = 0 THEN s ELSE s + BranchLen(pat[g], line, s)]

\* pattern.match(line, i): lastgroup is the first branch that matches at i;
\* lastgroup = 0 stands for None.
match(pat, line, i) ==
  LET g == FirstBranch(pat, line, i)
  IN  [lastgroup |-> g, start |-> i,
       end |-> IF g = 0 THEN i ELSE i + BranchLen(pat[g], line, i)]

TokenInfo(type, variant, string, start, end, line) ==
  [type |-> type, variant |-> variant, string |-> string,
   start |-> start, end |-> end, line |-> line]

RECURSIVE splitlines(_)
\* str.splitlines() for the line feed: no empty last line after a final "\n".
splitlines(s) ==
  IF s = <<>> THEN <<>>
  ELSE LET N == {k \in 1..Len(s) : s[k] = "\n"}
       IN  IF N = {} THEN <<s>>
           ELSE <<SubSeq(s, 1, Min(N) - 1)>> \o splitlines(SubSeq(s, Min(N) + 1, Len(s)))

----------------------------------------------------------------------------
(* Nodes, values and exceptions                                            *)

\* Node(tag, text): a leaf whose "value" attribute is text.
Node(tag, text) == [tag |-> tag, value |-> text, children |-> <<>>]

\* Collection(tag, children): an interior element, no "value" attribute.
Collection(tag, children) == [tag |-> tag, value |-> <<>>, children |-> children]

\* Python None where an element is expected.
NoNode == [tag |-> "None", value |-> <<>>, children |-> <<>>]

\* Python None where a token is expected.
NoToken == TokenInfo("None", "None", <<>>, -1, -1, -1)

\* An exception: its class and what its arguments carry (a token, a variant).
Exc(type, token, variant) == [type |-> type, token |-> token, variant |-> variant]

NoExc == Exc("None", NoToken, "")

AssertionError == Exc("AssertionError", NoToken, "")
AttributeError == Exc("AttributeError", NoToken, "")
UnpackTypeError == Exc("TypeError", NoToken, "")
IndexError == Exc("IndexError", NoToken, "")
TokenError(token) == Exc("TokenError", token, "")
NotImplementedError(variant) == Exc("NotImplementedError", NoToken, variant)
InvalidTypeError(tag) == Exc("TypeError", NoToken, tag)

DigitChar(n) == <<"0", "1", "2", "3", "4", "5", "6", "7", "8", "9">>[n + 1]

RECURSIVE StripLeft(_, _)
StripLeft(s, c) == IF s # <<>> /\ Head(s) = c THEN StripLeft(Tail(s), c) ELSE s

RECURSIVE StripRight(_, _)
StripRight(s, c) ==
  IF s # <<>> /\ s[Len(s)] = c THEN StripRight(SubSeq(s, 1, Len(s) - 1), c) ELSE s

\* number(string): int(string), else float(string).  The value is held as the
\* text Python's str() gives for it, which is one text per value: 007 is 7,
\* .50 is 0.5, .00001 is 1e-05.
number(string) ==
  IF Head(string) # "."
  THEN LET d == StripLeft(string, "0") IN IF d = <<>> THEN <<"0">> ELSE d
  ELSE LET frac == StripRight(Tail(string), "0")
           sig  == StripLeft(frac, "0")
           z    == Len(frac) - Len(sig)
       IN  IF frac = <<>> THEN <<"0", ".", "0">>
           ELSE IF z < 4 THEN <<"0", ".">> \o frac
           ELSE (IF Len(sig) = 1 THEN sig ELSE <<Head(sig), ".">> \o Tail(sig))
                \o <<"e", "-", DigitChar(((z + 1) \div 10) % 10), DigitChar((z + 1) % 10)>>

\* str(value) of a NUM value: the text held for it.
str(value) == value

----------------------------------------------------------------------------
(* Parser                                                                  *)

\* A parse function returns (i, element) or raises.
Ret(i, node) == [exc |-> NoExc, i |-> i, node |-> node]
Raise(e)     == [exc |-> e, i |-> -1, node |-> NoNode]
\* A function that falls off its end returns None.
RetNone      == [exc |-> NoExc, i |-> -1, node |-> NoNode]

\* parse_collection returns (i, arguments) or raises.
RetC(i, arguments) == [exc |-> NoExc, i |-> i, arguments |-> arguments]
RaiseC(e)          == [exc |-> e, i |-> -1, arguments |-> <<>>]

\* Indices j >= i of the tokens that are not whitespace.
NonSpace(toks, i) == {j \in i..(Len(toks) - 1) : toks[j + 1].type # "space"}

get(toks, i) ==
  IF NonSpace(toks, i) = {}
  THEN <<-1, TokenInfo("end", "end", <<>>, i, i, 1)>>
  ELSE <<Min(NonSpace(toks, i)) + 1, toks[Min(NonSpace(toks, i)) + 1]>>

\* _i: with only whitespace left the loop variable j is returned (the last
\* index); parse_collection calls it with a close token ahead.
_i(toks, i) ==
  IF NonSpace(toks, i) = {} THEN Len(toks) - 1 ELSE Min(NonSpace(toks, i)) + 1

get_token(toks, i) ==
  IF NonSpace(toks, i) = {} THEN NoToken ELSE toks[Min(NonSpace(toks, i)) + 1]

RECURSIVE JoinStrings(_, _, _)
\* "".join(token.string for token in tokens[i:j])
JoinStrings(toks, i, j) ==
  IF i >= j THEN <<>> ELSE toks[i + 1].string \o JoinStrings(toks, i + 1, j)

RECURSIVE parse_string_loop(_, _, _, _, _)
\* The for loop of parse_string at index j; falling off the end returns None.
parse_string_loop(toks, i, j, escape, start) ==
  IF j >= Len(toks) THEN RetNone
  ELSE IF escape THEN parse_string_loop(toks, i, j + 1, FALSE, start)
  ELSE IF toks[j + 1].variant = start
       THEN Ret(j + 1, Node("STR", JoinStrings(toks, i, j)))
  ELSE parse_string_loop(toks, i, j + 1, toks[j + 1].variant = "escape", start)

parse_string(toks, i) == parse_string_loop(toks, i, i, FALSE, toks[i].variant)

RECURSIVE parse_collection_loop(_, _, _)
RECURSIVE parse_term(_, _)
RECURSIVE parse_post_loop(_, _, _)
RECURSIVE parse_prod_loop(_, _, _)
RECURSIVE parse_sum_loop(_, _, _)
RECURSIVE parse_comp_loop(_, _, _)
RECURSIVE parse_logical_loop(_, _, _)
RECURSIVE parse_function_expression(_, _)
RECURSIVE parse_sum_expression(_, _)

\* The element of a one-element set: Only({e : x \in {v}}) is e for x = v.
Only(S) == CHOOSE x \in S : TRUE

\* A call that returned or raised r inside a parse function: an exception
\* leaves the caller as well, otherwise the caller goes on with k.
Try(r, k) == IF r.exc # NoExc THEN Raise(r.exc) ELSE k

\* The same inside parse_collection, which returns (i, arguments).
TryC(r, k) == IF r.exc # NoExc THEN RaiseC(r.exc) ELSE k

\* The while loop of parse_collection; get_token gives None at the end of
\* the tokens and None has no attribute "type".
parse_collection_loop(toks, i, arguments) ==
  IF get_token(toks, i) = NoToken THEN RaiseC(AttributeError)
  ELSE IF get_token(toks, i).type = "close" THEN RetC(_i(toks, i), arguments)
  ELSE Only({TryC(r,
             parse_collection_loop(
                toks,
                IF get(toks, r.i)[2].variant = "comma" THEN get(toks, r.i)[1] ELSE r.i,
                Append(arguments, r.node)))
             : r \in {parse_function_expression(toks, i)}})

parse_collection(toks, i) == parse_collection_loop(toks, i, <<>>)

parse_term(toks, i0) ==
  LET i     == get(toks, i0)[1]
      token == get(toks, i0)[2]
  IN  IF token.type = "word" THEN Ret(i, Node("VAR", token.string))
      ELSE IF token.type = "open" THEN
        Only({Try(c,
              IF token.variant = "lsquare" THEN Ret(c.i, Collection("LIST", c.arguments))
              ELSE IF token.variant = "lparen" THEN Ret(c.i, Collection("PAREN", c.arguments))
              ELSE Raise(NotImplementedError(token.variant)))
              : c \in {parse_collection(toks, i)}})
      ELSE IF token.type = "number" THEN Ret(i, Node("NUM", number(token.string)))
      ELSE IF token.type = "string" THEN
        LET s == parse_string(toks, i)
        IN  IF s = RetNone THEN Raise(UnpackTypeError) ELSE s
      ELSE IF token.type = "operator" THEN
        IF token.variant \in {"add", "minus"}
        THEN Only({Try(a,
                   Ret(a.i, Collection("UNOP", <<Node("OP", token.string), a.node>>)))
                   : a \in {parse_term(toks, i)}})
        ELSE Raise(NotImplementedError(token.variant))
      ELSE Raise(TokenError(token))

parse_post_loop(toks, i, left) ==
  LET j     == get(toks, i)[1]
      right == get(toks, i)[2]
  IN  IF right.type = "open" THEN
        Only({Try(c,
              IF right.variant = "lparen"
              THEN parse_post_loop(toks, c.i,
                     Collection("CALL", <<left, Collection("ARGS", c.arguments)>>))
              ELSE IF right.variant = "lsquare"
              THEN parse_post_loop(toks, c.i,
                     Collection("GET", <<left, Collection("KEY", c.arguments)>>))
              ELSE Raise(NotImplementedError(right.variant)))
              : c \in {parse_collection(toks, j)}})
      ELSE Ret(i, left)

parse_post_expression(toks, i) ==
  Only({Try(l,
        parse_post_loop(toks, l.i, l.node))
        : l \in {parse_term(toks, i)}})

\* parse_prod_expression with its right operand parsed one level too low.
parse_prod_loop_sum(toks, i, left) ==
  LET j   == get(toks, i)[1]
      mid == get(toks, i)[2]
  IN  IF mid.variant \in {"multiply", "divide"} THEN
        Only({Try(r,
              parse_prod_loop(toks, r.i,
                Collection("PRODOP", <<left, Node("OP", mid.string), r.node>>)))
              : r \in {parse_sum_expression(toks, j)}})
      ELSE Ret(i, left)

parse_prod_loop(toks, i, left) ==
  LET j   == get(toks, i)[1]
      mid == get(toks, i)[2]
  IN  IF mid.variant \in {"multiply", "divide"} THEN
        Only({Try(r,
              parse_prod_loop(toks, r.i,
                Collection("PRODOP", <<left, Node("OP", mid.string), r.node>>)))
              : r \in {parse_post_expression(toks, j)}})
      ELSE Ret(i, left)

parse_prod_expression(toks, i) ==
  Only({Try(l,
        parse_prod_loop(toks, l.i, l.node))
        : l \in {parse_post_expression(toks, i)}})

parse_sum_loop(toks, i, left) ==
  LET j   == get(toks, i)[1]
      mid == get(toks, i)[2]
  IN  IF mid.variant \in {"add", "minus"} THEN
        Only({Try(r,
              parse_sum_loop(toks, r.i,
                Collection("SUMOP", <<left, Node("OP", mid.string), r.node>>)))
              : r \in {parse_prod_expression(toks, j)}})
      ELSE Ret(i, left)

parse_sum_expression(toks, i) ==
  Only({Try(l,
        parse_sum_loop(toks, l.i, l.node))
        : l \in {parse_prod_expression(toks, i)}})

\* parse_comp_expression with its right operand parsed at sum level.
parse_comp_loop_sum(toks, i, left) ==
  LET j   == get(toks, i)[1]
      mid == get(toks, i)[2]
  IN  IF mid.variant \in {"equals", "notEquals", "greater", "lesser"} THEN
        Only({Try(r,
              parse_comp_loop(toks, r.i,
                Collection("COMPARE", <<left, Node("OP", mid.string), r.node>>)))
              : r \in {parse_sum_expression(toks, j)}})
      ELSE Ret(i, left)

parse_comp_loop(toks, i, left) ==
  LET j   == get(toks, i)[1]
      mid == get(toks, i)[2]
  IN  IF mid.variant \in {"equals", "notEquals", "greater", "lesser"} THEN
        Only({Try(r,
              parse_comp_loop(toks, r.i,
                Collection("COMPARE", <<left, Node("OP", mid.string), r.node>>)))
              : r \in {parse_prod_expression(toks, j)}})
      ELSE Ret(i, left)

parse_comp_expression(toks, i) ==
  Only({Try(l,
        parse_comp_loop(toks, l.i, l.node))
        : l \in {parse_sum_expression(toks, i)}})

parse_logical_loop(toks, i, left) ==
  LET j   == get(toks, i)[1]
      mid == get(toks, i)[2]
  IN  IF mid.variant \in {"and", "or"} THEN
        Only({Try(r,
              parse_logical_loop(toks, r.i,
                Collection("LOGICAL", <<left, Node("OP", mid.string), r.node>>)))
              : r \in {parse_comp_expression(toks, j)}})
      ELSE Ret(i, left)

parse_logical_expression(toks, i) ==
  Only({Try(l,
        parse_logical_loop(toks, l.i, l.node))
        : l \in {parse_comp_expression(toks, i)}})

parse_function_expression(toks, i) ==
  Only({Try(l,
        IF get(toks, l.i)[2].variant = "arrow"
        THEN Only({Try(r,
                   Ret(r.i, Collection("FUNC", <<l.node, r.node>>)))
                   : r \in {parse_logical_expression(toks, get(toks, l.i)[1])}})
        ELSE Ret(l.i, l.node))
        : l \in {parse_logical_expression(toks, i)}})

parse_expression(toks, i) ==
  Only({Try(l,
        IF get(toks, l.i)[2].variant = "assign"
        THEN Only({Try(r,
                   Ret(r.i, Collection("ASSIGN", <<l.node, r.node>>)))
                   : r \in {parse_logical_expression(toks, get(toks, l.i)[1])}})
        ELSE Ret(l.i, l.node))
        : l \in {parse_logical_expression(toks, i)}})

----------------------------------------------------------------------------
(* Formatter                                                               *)

\* The value of indent that selects the compact layout (Python's False).
False == -1

\* Number of blanks of one indentation level in the indented layout.
IndentWidth == 2

\* tag(codes): the escape sequence, held as one element of the text.
tag(codes) == "\\033[" \o codes \o "m"

END == tag("0")

\* code_style joins the codes that are not None with ";".
code_style(string, codes) == <<tag(codes)>> \o string \o <<END>>

VAR_STYLE == "93;1"
NUM_STYLE == "95"
STR_STYLE == "92"

style(string, codes) == code_style(string, codes)

StyleTags == {tag(VAR_STYLE), tag(NUM_STYLE), tag(STR_STYLE), END}

Blanks(n) == [k \in 1..n |-> " "]

RECURSIVE IndentLines(_, _, _)
\* textwrap.indent: the prefix goes before every line that is not blank.
IndentLines(string, prefix, k) ==
  IF k > Len(string) THEN <<>>
  ELSE LET N    == {m \in k..Len(string) : string[m] = "\n"}
           stop == IF N = {} THEN Len(string) ELSE Min(N)
           line == SubSeq(string, k, stop)
       IN  (IF \E m \in 1..Len(line) : line[m] \notin WhiteSpace \cup {"\n"}
            THEN prefix \o line ELSE line)
           \o IndentLines(string, prefix, stop + 1)

_indent(string, n) == IndentLines(string, Blanks(n), 1)

\* froot returns a string or raises.
Str(s)     == [exc |-> NoExc, s |-> s]
FRaise(e)  == [exc |-> e, s |-> <<>>]

RECURSIVE froot(_, _)
RECURSIVE JoinFroot(_, _, _)

\* A call that returned or raised h inside froot: an exception leaves
\* froot, otherwise froot goes on with k.
FTry(h, k) == IF h.exc # NoExc THEN h ELSE k

\* sep.join(froot(c, indent) for c in el)
JoinFroot(children, indent, sep) ==
  IF children = <<>> THEN Str(<<>>)
  ELSE Only({FTry(h,
             IF Len(children) = 1 THEN h
              ELSE Only({FTry(t,
                         Str(h.s \o sep \o t.s))
                         : t \in {JoinFroot(Tail(children), indent, sep)}}))
             : h \in {froot(Head(children), indent)}})

\* froot(el[k], indent): el[k] raises IndexError when there is no such child.
FrootChild(el, k, indent) ==
  IF k >= Len(el.children) THEN FRaise(IndexError) ELSE froot(el.children[k + 1], indent)

\* before + froot(el[0]) + mid + froot(el[1]) + after
Around(a, b, before, mid, after) ==
  IF a.exc # NoExc THEN a
  ELSE IF b.exc # NoExc THEN b
  ELSE Str(before \o a.s \o mid \o b.s \o after)

froot(el, indent) ==
  CASE el.tag \in {"UNOP", "PRODOP"} -> JoinFroot(el.children, indent, <<>>)
    [] el.tag \in {"SUMOP", "COMPARE"} -> JoinFroot(el.children, indent, <<" ">>)
    [] el.tag = "FUNC" ->
         Around(FrootChild(el, 0, indent), FrootChild(el, 1, indent),
                <<>>, <<" ", "-", ">", " ">>, <<>>)
    [] el.tag = "ASSIGN" ->
         Around(FrootChild(el, 0, indent), FrootChild(el, 1, indent),
                <<>>, <<" ", ":", "=", " ">>, <<>>)
    [] el.tag = "OP" -> Str(el.value)
    [] el.tag = "CALL" ->
         IF indent = False
         THEN Around(FrootChild(el, 0, False), FrootChild(el, 1, False),
                     <<>>, <<"(">>, <<")">>)
         ELSE Only({FTry(body,
                    Around(FrootChild(el, 0, indent), Str(_indent(body.s, indent)),
                            <<>>, <<"(", "\n">>, <<"\n", ")">>))
                    : body \in {FrootChild(el, 1, indent)}})
    [] el.tag = "GET" ->
         Around(FrootChild(el, 0, indent), FrootChild(el, 1, indent),
                <<>>, <<"[">>, <<"]">>)
    [] el.tag = "PAREN" ->
         Around(Str(<<>>), FrootChild(el, 0, indent), <<"(">>, <<>>, <<")">>)
    [] el.tag = "LIST" ->
         IF indent = False
         THEN Around(Str(<<>>), JoinFroot(el.children, indent, <<",", " ">>),
                     <<"[">>, <<>>, <<"]">>)
         ELSE Only({FTry(body,
                    Str(<<"[", "\n">> \o _indent(body.s, indent) \o <<",", "\n", "]">>))
                    : body \in {JoinFroot(el.children, indent, <<",", "\n">>)}})
    [] el.tag = "ARGS" ->
         IF indent = False
         THEN JoinFroot(el.children, indent, <<",", " ">>)
         ELSE Around(Str(<<>>), JoinFroot(el.children, indent, <<",", "\n">>),
                     <<>>, <<>>, <<",">>)
    [] el.tag = "KEY" -> JoinFroot(el.children, indent, <<",", " ">>)
    [] el.tag = "NUM" -> Str(style(str(el.value), NUM_STYLE))
    [] el.tag = "VAR" -> Str(style(el.value, VAR_STYLE))
    [] el.tag = "STR" -> Str(style(<<"'">> \o el.value \o <<"'">>, STR_STYLE))
    [] OTHER -> FRaise(InvalidTypeError(el.tag))

\* The rendered text without the colour styling.
Unstyled(s) == SelectSeq(s, LAMBDA c : c \notin StyleTags)

----------------------------------------------------------------------------
(* The program: tokenize a text, parse it, render the AST, and feed the    *)
(* compact rendering back in.                                              *)

VARIABLES
  text,       \* the source text given to parse
  lines,      \* lines.splitlines() in tokenize
  lineno,     \* line being scanned, from 1
  i,          \* scan offset in the line
  tokenList,  \* list(tokenize(text, pattern)) so far
  pc,         \* "tokenize", "parsed", "rendered" or "raised"
  raisedIn,   \* the function the exception left: "tokenize", "parse", "froot"
  root,       \* the AST parse returned
  cursor,     \* the index parse_expression returned with the AST
  exc,        \* the exception raised
  indent,     \* the indent argument of froot
  rendered,   \* the text froot returned
  first,      \* the AST of the first pass, kept for the second one
  round       \* 1: the source text, 2: its compact rendering

vars == <<text, lines, lineno, i, tokenList, pc, raisedIn, root, cursor, exc,
          indent, rendered, first, round>>

RECURSIVE Texts(_, _)
\* The texts of at most n characters of alphabet A.
Texts(A, n) ==
  IF n = 0 THEN {<<>>}
  ELSE LET shorter == Texts(A, n - 1)
       IN  shorter \cup {Append(t, c) : t \in {u \in shorter : Len(u) = n - 1}, c \in A}

\* The source texts main() parses and prints.
tests ==
  << <<"-", "1", "+", "h", "e", "l", "l", "o", "(", "\n", " ", " ", " ",
     " ", "1", ",", "\n", " ", " ", " ", " ", "'", "w", "\\", "\"", "o",
     "r", "l", "d", "'", ",", "\n", " ", " ", " ", " ", "3", ",", "\n",
     ")", "*", "2", "-", "(", "1", "+", "1", ")">>,
     <<"s", "p", "l", "i", "t", "(", "P", "l", "a", "y", "e", "r", ",",
     " ", "'", "\\", "\\", "'", ")", "[", "1", "]">>,
     <<"m", "a", "p", "I", "f", "(", "[", "'", "i", "c", "e", "c", "r",
     "e", "a", "m", "'", ",", " ", "'", "c", "a", "k", "e", "'", ",", " ",
     "'", "s", "o", "d", "a", "'", "]", ",", " ", "l", "e", "n", "g", "t",
     "h", "(", "#", "i", "t", "e", "m", ")", ">", "4", ",", " ", "u", "p",
     "p", "e", "r", "(", "#", "i", "t", "e", "m", ")", ")">>,
     <<"[", "'", "f", "r", "u", "i", "t", "'", " ", "-", ">", " ", " ",
     " ", "'", "a", "p", "p", "l", "e", "'", ",", " ", " ", "'", "v", "e",
     "g", "e", "t", "a", "b", "l", "e", "'", " ", "-", ">", " ", "'", "c",
     "a", "r", "r", "o", "t", "'", "]">>,
     <<"x", " ", ":", "=", " ", "[", "y", " ", "-", ">", " ", "2", ",",
     " ", "z", "-", ">", "3", "]">> >>

\* Source texts used as examples in the documentation of the grammar.
examples ==
  << <<"1", "+", "2", "*", "3">>,
     <<"a", " ", "=", " ", "b", " ", "+", " ", "c">>,
     <<"f", "(", "1", ")", "[", "2", "]">>,
     <<"'", "w", "\\", "\"", "o", "r", "l", "d", "'">>,
     <<"[", "'", "f", "r", "u", "i", "t", "'", " ", "-", ">", " ", "'",
     "a", "p", "p", "l", "e", "'", ",", " ", "'", "v", "e", "g", "e", "t",
     "a", "b", "l", "e", "'", " ", "-", ">", " ", "'", "c", "a", "r", "r",
     "o", "t", "'", "]">>,
     <<"@">>,
     <<"1", ".", "5">>,
     <<".", "5">>,
     <<"1", "5">> >>

\* Alphabets of the generated source texts.
ArithChars == {"a", "+", "*", "=", "(", ")"}
LexChars   == {"1", ".", " ", "\n", "@", "("}
StrChars   == {"'", "\"", "\\", "w"}
ListChars  == {"a", "[", "]", ",", "-", ">"}
LogicChars == {"a", "&", "|", ":", "="}

ArithInputs == Texts(ArithChars, MaxLen)
LexInputs   == Texts(LexChars, MaxLen)
StrInputs   == Texts(StrChars, MaxLen)
ListInputs  == Texts(ListChars, MaxLen)
LogicInputs == Texts(LogicChars, MaxLen)

FixedInputs ==
  {tests[k] : k \in 1..Len(tests)} \cup {examples[k] : k \in 1..Len(examples)}

Start(t) ==
  /\ text = t
  /\ lines = splitlines(t)
  /\ lineno = 1
  /\ i = 0
  /\ tokenList = <<>>
  /\ pc = "tokenize"

InitOver(I) ==
  /\ \E t \in I : Start(t)
  /\ raisedIn = "" /\ root = NoNode /\ cursor = -1 /\ exc = NoExc
  /\ indent = False /\ rendered = <<>> /\ first = NoNode /\ round = 1

Init ==
  \/ InitOver(FixedInputs)
  \/ InitOver(ArithInputs)
  \/ InitOver(LexInputs)
  \/ InitOver(StrInputs)
  \/ InitOver(ListInputs)
  \/ InitOver(LogicInputs)

\* tokenize, body of the while loop: a rule matches at i, the token is
\* yielded and the scan moves to its end.
TokenizeMatch ==
  /\ pc = "tokenize" /\ lineno <= Len(lines)
  /\ \E m \in {match(pattern, lines[lineno], i)} :
         /\ m.lastgroup # 0
         /\ tokenList' = Append(tokenList,
               TokenInfo(pattern[m.lastgroup].type, pattern[m.lastgroup].variant,
                         SubSeq(lines[lineno], m.start + 1, m.end),
                         m.start, m.end, lineno))
         /\ i' = m.end
  /\ UNCHANGED <<text, lines, lineno, pc, raisedIn, root, cursor, exc, indent,
                 rendered, first, round>>

\* tokenize, end of the while loop: no rule matches at i; the assertion
\* passes at the end of the line and raises AssertionError before it.
TokenizeEndOfLine ==
  /\ pc = "tokenize" /\ lineno <= Len(lines)
  /\ match(pattern, lines[lineno], i).lastgroup = 0
  /\ IF i = Len(lines[lineno])
     THEN /\ lineno' = lineno + 1
          /\ i' = 0
          /\ UNCHANGED <<pc, raisedIn, exc>>
     ELSE /\ pc' = "raised"
          /\ raisedIn' = "tokenize"
          /\ exc' = AssertionError
          /\ UNCHANGED <<lineno, i>>
  /\ UNCHANGED <<text, lines, tokenList, root, cursor, indent, rendered, first, round>>

\* parse: the token list is complete; parse_expression(tokens, 0)[1].
Parse ==
  /\ pc = "tokenize" /\ lineno > Len(lines)
  /\ \E r \in {parse_expression(tokenList, 0)} :
         IF r.exc # NoExc
         THEN /\ pc' = "raised" /\ raisedIn' = "parse" /\ exc' = r.exc
              /\ UNCHANGED <<root, cursor>>
         ELSE /\ pc' = "parsed" /\ root' = r.node /\ cursor' = r.i
              /\ UNCHANGED <<raisedIn, exc>>
  /\ UNCHANGED <<text, lines, lineno, i, tokenList, indent, rendered, first, round>>

\* froot(root, indent) on the AST of the source text.
Froot ==
  /\ pc = "parsed" /\ round = 1
  /\ \E n \in {False, IndentWidth} :
       /\ indent' = n
       /\ \E f \in {froot(root, n)} :
              IF f.exc # NoExc
              THEN /\ pc' = "raised" /\ raisedIn' = "froot" /\ exc' = f.exc
                   /\ UNCHANGED rendered
              ELSE /\ pc' = "rendered" /\ rendered' = f.s
                   /\ UNCHANGED <<raisedIn, exc>>
  /\ UNCHANGED <<text, lines, lineno, i, tokenList, root, cursor, first, round>>

\* The compact rendering, colour styling removed, is parsed again.
Reparse ==
  /\ pc = "rendered" /\ round = 1 /\ indent = False
  /\ text' = Unstyled(rendered)
  /\ lines' = splitlines(Unstyled(rendered))
  /\ lineno' = 1 /\ i' = 0 /\ tokenList' = <<>>
  /\ pc' = "tokenize"
  /\ first' = root
  /\ root' = NoNode /\ cursor' = -1
  /\ round' = 2
  /\ UNCHANGED <<raisedIn, exc, indent, rendered>>

Next == TokenizeMatch \/ TokenizeEndOfLine \/ Parse \/ Froot \/ Reparse

Spec == Init /\ [][Next]_vars

\* The same program on the arithmetic texts only, and on the lexer texts only.
SpecArith == InitOver(ArithInputs) /\ [][Next]_vars
SpecLex   == InitOver(LexInputs) /\ [][Next]_vars

----------------------------------------------------------------------------
(* Properties                                                              *)

RECURSIVE Nodes(_)
\* The element n and all its descendants.
Nodes(n) == {n} \cup UNION {Nodes(n.children[k]) : k \in 1..Len(n.children)}

\* The tokens yielded for line k.
LineTokens(k) == SelectSeq(tokenList, LAMBDA t : t.line = k)

\* The tokens ts cover line exactly once, in order.
Covers(ts, line) ==
  /\ ts = <<>> => line = <<>>
  /\ ts # <<>> => ts[1].start = 0 /\ ts[Len(ts)].end = Len(line)
  /\ \A n \in 1..Len(ts) :
        /\ ts[n].start < ts[n].end
        /\ ts[n].string = SubSeq(line, ts[n].start + 1, ts[n].end)
  /\ \A n \in 1..(Len(ts) - 1) : ts[n + 1].start = ts[n].end

\* C2: every line tokenize has finished without error is covered exactly
\* once by the tokens yielded for it, whitespace tokens included: the first
\* starts at offset 0, none is empty, each starts where the previous one
\* ends and the last ends at the length of the line.
C2_TokensCoverLine ==
  \A k \in 1..Len(lines) : k < lineno => Covers(LineTokens(k), lines[k])

\* A finished line of several tokens, one of them whitespace.
C2_Witness ==
  /\ round = 1 /\ lineno > 1
  /\ Len(LineTokens(1)) >= 3
  /\ \E n \in 1..Len(tokenList) : tokenList[n].type = "space"

\* C6: in every AST parse returns, the right (third) child of a COMPARE
\* node is never a SUMOP node.
C6_CompareRightNotSum ==
  \A n \in Nodes(root) : n.tag = "COMPARE" => n.children[3].tag # "SUMOP"

\* parse returned a COMPARE whose right operand stopped before a "+" or "-".
C6_Witness ==
  /\ pc = "parsed" /\ round = 1
  /\ root.tag = "COMPARE"
  /\ get(tokenList, cursor)[2].variant \in {"add", "minus"}

\* The tokens are exactly  a + b * c  for three primaries a, b, c, each
\* being what parse_term accepts.
IsSumOfProduct(toks) ==
  LET a == parse_term(toks, 0)
  IN  /\ a.exc = NoExc
      /\ get(toks, a.i)[2].variant = "add"
      /\ LET b == parse_term(toks, get(toks, a.i)[1])
         IN  /\ b.exc = NoExc
             /\ get(toks, b.i)[2].variant = "multiply"
             /\ LET c == parse_term(toks, get(toks, b.i)[1])
                IN  c.exc = NoExc /\ get(toks, c.i)[2].type = "end"

SumOfProduct(toks) ==
  LET a == parse_term(toks, 0)
      b == parse_term(toks, get(toks, a.i)[1])
      c == parse_term(toks, get(toks, b.i)[1])
  IN  Collection("SUMOP",
        <<a.node, Node("OP", <<"+">>),
          Collection("PRODOP", <<b.node, Node("OP", <<"*">>), c.node>>)>>)

\* C7: the input a+b*c, for primaries a, b, c, parses as
\* SUMOP(a, OP(+), PRODOP(b, OP(*), c)), and in every AST parse returns no
\* direct child of a PRODOP node is a SUMOP node.
C7_ProductBindsTighter ==
  /\ (pc \in {"parsed", "raised"} /\ raisedIn # "tokenize" /\ raisedIn # "froot"
        /\ IsSumOfProduct(tokenList))
       => pc = "parsed" /\ root = SumOfProduct(tokenList)
  /\ \A n \in Nodes(root) : n.tag = "PRODOP" =>
        \A k \in 1..Len(n.children) : n.children[k].tag # "SUMOP"

\* parse returned the AST of a text of the shape a+b*c.
C7_Witness ==
  /\ pc = "parsed" /\ round = 1
  /\ IsSumOfProduct(tokenList)
  /\ root.tag = "SUMOP" /\ root.children[3].tag = "PRODOP"

\* C1: for every source text parse accepts, rendering the AST with froot in
\* compact mode and tokenizing and parsing the rendered text (colour styling
\* ignored) gives an AST structurally equal to the first one.
C1_RoundTrip ==
  /\ ~(round = 1 /\ pc = "raised" /\ raisedIn = "froot" /\ indent = False)
  /\ ~(round = 2 /\ pc = "raised")
  /\ (round = 2 /\ pc = "parsed") => root = first

\* C3: when no rule matches before the end of a line, tokenize fails with a
\* lexical error of its own kind that reports that line and offset, and
\* parse returns no AST.
C3_LexErrorReported ==
  (pc = "raised" /\ raisedIn = "tokenize") =>
    /\ lineno <= Len(lines) /\ i < Len(lines[lineno])
    /\ match(pattern, lines[lineno], i).lastgroup = 0
    /\ exc.type \notin {"None", "TokenError", "NotImplementedError"}
    /\ exc.token.line = lineno /\ exc.token.start = i
    /\ root = NoNode

QuoteChars == {"'", "\""}

\* Every escape character of s stands before a quote character.
EscapesOnlyQuotes(s) ==
  \A k \in 1..Len(s) : s[k] = "\\" => (k < Len(s) /\ s[k + 1] \in QuoteChars)

RECURSIVE Content(_, _, _)
\* The content of the string literal opened by q whose text starts at s[k]:
\* an escaped character is content and its escape character is dropped; the
\* first quote q that is not escaped ends the literal.
Content(s, k, q) ==
  IF k > Len(s) THEN <<"unterminated">>
  ELSE IF s[k] = "\\" /\ k < Len(s) THEN <<s[k + 1]>> \o Content(s, k + 2, q)
  ELSE IF s[k] = q THEN <<>>
  ELSE <<s[k]>> \o Content(s, k + 1, q)

\* C4: inside a string literal a quote preceded by the escape character is
\* content and does not end the string, whatever precedes the escape
\* character, and the STR leaf holds the content without the escape
\* character ('w\"orld' gives w"orld).
C4_EscapedQuote ==
  (round = 1 /\ pc = "parsed" /\ root.tag = "STR"
     /\ text # <<>> /\ text[1] \in QuoteChars /\ EscapesOnlyQuotes(text))
    => root = Node("STR", Content(text, 2, text[1]))

\* C5: parse on a lexed token list returns an AST or fails with a parse
\* error: an invalid expression start carrying the offending token, or a
\* construct that is not implemented.  No other failure occurs.
C5_OnlyParseErrors ==
  (pc = "raised" /\ raisedIn = "parse") =>
    \/ exc.type = "TokenError" /\ exc.token # NoToken
    \/ exc.type = "NotImplementedError"

RECURSIVE Joined(_, _)
\* The texts of parts joined by sep.
Joined(parts, sep) ==
  IF parts = <<>> THEN <<>>
  ELSE IF Len(parts) = 1 THEN parts[1]
  ELSE parts[1] \o sep \o Joined(Tail(parts), sep)

\* C8: froot renders a SUMOP, COMPARE or LOGICAL node as the renderings of
\* its children joined by one space, and a PRODOP node as the renderings of
\* its children joined with no separator, in both layouts; rendering such a
\* node always returns a string.
C8_BinaryRendering ==
  (round = 1 /\ root.tag \in {"SUMOP", "COMPARE", "LOGICAL", "PRODOP"}
     /\ (pc = "rendered" \/ (pc = "raised" /\ raisedIn = "froot")))
    => /\ pc = "rendered"
       /\ rendered =
            Joined([k \in 1..Len(root.children) |-> froot(root.children[k], indent).s],
                   IF root.tag = "PRODOP" THEN <<>> ELSE <<" ">>)

IsDigits(s) == s # <<>> /\ \A k \in 1..Len(s) : s[k] \in Digits

\* s is digits, digits.digits or .digits
IsNumberLiteral(s) ==
  \/ IsDigits(s)
  \/ \E p \in 1..Len(s) :
        /\ s[p] = "."
        /\ p = 1 \/ IsDigits(SubSeq(s, 1, p - 1))
        /\ IsDigits(SubSeq(s, p + 1, Len(s)))

\* The value of the number literal s, as the text str() gives for it.
LiteralValue(s) ==
  IF IsDigits(s) \/ s[1] = "." THEN number(s)
  ELSE LET p    == Min({k \in 1..Len(s) : s[k] = "."})
           int  == StripLeft(SubSeq(s, 1, p - 1), "0")
           frac == StripRight(SubSeq(s, p + 1, Len(s)), "0")
       IN  (IF int = <<>> THEN <<"0">> ELSE int) \o <<".">>
             \o (IF frac = <<>> THEN <<"0">> ELSE frac)

\* C9: a number literal (an integer, a decimal with digits on both sides of
\* the point, a decimal starting with the point) lexes as exactly one number
\* token spanning the literal and parses to one NUM leaf holding its value.
C9_NumberLiteral ==
  (round = 1 /\ IsNumberLiteral(text)) =>
    /\ pc # "raised"
    /\ lineno > 1 => tokenList = <<TokenInfo("number", "number", text, 0, Len(text), 1)>>
    /\ pc \in {"parsed", "rendered"} => root = Node("NUM", LiteralValue(text))

\* C10: parse returns an AST only when the whole input was consumed: no
\* token other than whitespace lies at or after the index parse_expression
\* returned.
C10_WholeInputConsumed ==
  pc = "parsed" => NonSpace(tokenList, cursor) = {}

====
